---- MODULE Spec2Model ----
(***************************************************************************)
(* A model of MyExpress (src/src/index.js) and of its route matcher        *)
(* (src/src/utils.js): the registration API, listen, and the per-request   *)
(* control flow of the middleware pipeline, the error sweep, route         *)
(* dispatch, the route handler chain and the static / SPA fallback.        *)
(*                                                                         *)
(* Strings are sequences of one-character strings, so that startsWith,     *)
(* split and decodeURIComponent are computed as the code computes them.    *)
(* The asynchronous control flow is modelled by a call stack of frames     *)
(* (the synchronous run in progress), the continuations that are ready to  *)
(* resume (microtasks), the continuations that wait for a promise, and the *)
(* tasks that wait for a timer or for the file system (macrotasks).        *)
(***************************************************************************)
EXTENDS Integers, Sequences, FiniteSets, TLC

\* ------------------------------------------------------------------ bounds

\* Registrations (use, static, route) accepted by the model in all, and routes
\* among them.
MaxEntries == 3
MaxRoutes == 2
\* Handlers given to one route.
MaxHandlers == 2
\* Operations (send, next, throw, suspend, ...) user code performs per request.
MaxFuel == 2

\* ----------------------------------------------------------------- strings

Slash == "/"
Colon == ":"
Pct == "%"

\* "abc".startsWith("ab")
StartsWith(s, p) == Len(p) <= Len(s) /\ SubSeq(s, 1, Len(p)) = p

RECURSIVE SplitAcc(_, _, _)
SplitAcc(s, c, cur) ==
    IF s = <<>> THEN <<cur>>
    ELSE IF Head(s) = c THEN <<cur>> \o SplitAcc(Tail(s), c, <<>>)
    ELSE SplitAcc(Tail(s), c, Append(cur, Head(s)))

\* s.split(c): "/a/b".split("/") is ["", "a", "b"], "".split("/") is [""]
Split(s, c) == SplitAcc(s, c, <<>>)

\* The part of s before the first character of cs: s.split(c)[0], repeated.
RECURSIVE Before(_, _)
Before(s, cs) ==
    IF s = <<>> \/ Head(s) \in cs THEN <<>>
    ELSE <<Head(s)>> \o Before(Tail(s), cs)

\* Hexadecimal digits among the characters the model uses.
HexDigits == {"1", "4", "a", "b"}
HexVal(c) == CASE c = "1" -> 1 [] c = "4" -> 4 [] c = "a" -> 10 [] c = "b" -> 11

\* The character of an ASCII byte (the bytes two digits of 1 and 4 can spell).
Chr(b) ==
    CASE b = 65 -> "A" [] b = 68 -> "D" [] b = 74 -> "J" [] b = 75 -> "K"
      [] b = 17 -> "DC1" [] b = 20 -> "DC4" [] b = 26 -> "SUB" [] b = 27 -> "ESC"

\* decodeURIComponent: every "%" must start "%XX" with two hexadecimal digits,
\* and the decoded bytes must be UTF-8. A byte of 0x80 or more spelt with the
\* digits above is 0xA? or 0xB?, a continuation byte with no lead byte, which is
\* malformed. The result is [ok |-> FALSE] for a URIError.
RECURSIVE decodeURIComponent(_)
decodeURIComponent(s) ==
    IF s = <<>> THEN [ok |-> TRUE, val |-> <<>>]
    ELSE IF Head(s) # Pct THEN
        LET r == decodeURIComponent(Tail(s))
        IN  IF r.ok THEN [ok |-> TRUE, val |-> <<Head(s)>> \o r.val] ELSE r
    ELSE IF Len(s) < 3 \/ s[2] \notin HexDigits \/ s[3] \notin HexDigits
        THEN [ok |-> FALSE, val |-> <<>>]
    ELSE LET b == 16 * HexVal(s[2]) + HexVal(s[3])
             r == decodeURIComponent(SubSeq(s, 4, Len(s)))
         IN  IF b >= 128 THEN [ok |-> FALSE, val |-> <<>>]
             ELSE IF r.ok THEN [ok |-> TRUE, val |-> <<Chr(b)>> \o r.val] ELSE r

\* -------------------------------------------------------------- findRoute

\* const [urlWithoutHash] = req.url.split('#'); const [pathname] = ....split('?')
RoutePathname(url) == Before(Before(url, {"#"}), {"?"})

IsParam(seg) == StartsWith(seg, <<Colon>>)

\* The loop over the segments of one route, from position i on: "match" with
\* the params bound so far, "nomatch" at the first literal that differs, "throw"
\* when decodeURIComponent raises at a ':name' position reached before that.
\* params is a JS object: a later ':name' of the same name overwrites.
RECURSIVE MatchFrom(_, _, _, _)
MatchFrom(routeParts, urlParts, i, params) ==
    IF i > Len(routeParts) THEN [st |-> "match", params |-> params]
    ELSE IF IsParam(routeParts[i]) THEN
        LET d == decodeURIComponent(urlParts[i])
            name == Tail(routeParts[i])
        IN  IF ~d.ok THEN [st |-> "throw", params |-> params]
            ELSE MatchFrom(routeParts, urlParts, i + 1,
                   [n \in (DOMAIN params) \cup {name} |->
                       IF n = name THEN d.val ELSE params[n]])
    ELSE IF routeParts[i] # urlParts[i] THEN [st |-> "nomatch", params |-> params]
    ELSE MatchFrom(routeParts, urlParts, i + 1, params)

NoParams == [n \in {} |-> <<>>]

\* One iteration of findRoute's loop over the routes.
MatchRoute(route, method, pathname) ==
    IF route.method # method THEN [st |-> "nomatch", params |-> NoParams]
    ELSE LET routeParts == Split(route.url, Slash)
             urlParts == Split(pathname, Slash)
         IN  IF Len(routeParts) # Len(urlParts)
             THEN [st |-> "nomatch", params |-> NoParams]
             ELSE MatchFrom(routeParts, urlParts, 1, NoParams)

\* findRoute(routes, req), scanning from route k: the first route that matches
\* (kind "match", its index and params), null (kind "none"), or the URIError of
\* the first route whose scan raises (kind "throw").
RECURSIVE FindFrom(_, _, _, _)
FindFrom(rs, method, pathname, k) ==
    IF k > Len(rs) THEN [kind |-> "none", idx |-> 0, params |-> NoParams]
    ELSE LET m == MatchRoute(rs[k], method, pathname)
         IN  CASE m.st = "match" -> [kind |-> "match", idx |-> k, params |-> m.params]
               [] m.st = "throw" -> [kind |-> "throw", idx |-> k, params |-> NoParams]
               [] OTHER -> FindFrom(rs, method, pathname, k + 1)

findRoute(rs, r) == FindFrom(rs, r.method, RoutePathname(r.url), 1)

\* ------------------------------------------------------------------ inputs

S(c) == <<Slash, c>>

\* Mount paths given to use(), request URLs and route patterns of the pipeline.
MountPaths == {<<Slash>>, S("a")}
\* use(fn), with no path argument.
Omitted == <<"omitted">>
RequestUrls == {S("a"), <<Slash, "a", "2">>, <<Slash, Pct, "z">> \o S("a")}
RequestMethods == {"GET"}
PipelineRoutes == {S("a"), <<Slash, Colon, "i">> \o S("b")}
Directories == {"public", "dist"}
\* The directory of the system that has routes and error handlers as well.
MainDirectory == "public"

\* Patterns and URLs the matcher is exercised on: literals, ':name' segments,
\* an empty segment, a trailing slash, percent-encoded and undecodable segments,
\* a query and a fragment.
Methods == {"GET", "POST"}
MatcherPatterns ==
    { S("a"), <<Slash, Colon, "i">>,
      S("a") \o S("b"), S("a") \o <<Slash, Colon, "i">>,
      S("a") \o <<Slash, Colon, "x">>, <<Slash, Colon, "i">> \o S("b"),
      <<Slash>> \o S("a") }
MatcherUrls ==
    { <<Slash>>, S("a"), S("a") \o S("b"), S("a") \o S("a"),
      <<Slash>> \o S("a"), S("a") \o <<Slash>>,
      <<Slash, Pct, "4", "1">>, <<Slash, Pct, "z">>,
      <<Slash, Pct, "z">> \o S("b"), <<Slash, Pct, "z">> \o S("a"),
      S("a") \o <<Slash, Pct, "4", "1">>, S("a") \o <<Slash, Pct, "a", "b">>,
      S("a") \o <<"?", "q">>, S("a") \o <<"#", "h">> }

\* Ports handed to listen(): both edges of the valid range and the spec's examples.
Ports == {-1, 0, 1, 2, 80, 65534, 65535, 65536, 70000}
Hosts == {"undefined", "127.0.0.1", "function"}

\* ------------------------------------------------------------------- state

VARIABLES
    routes,            \* #routes: <<[method, url, handlers]>>
    middleware,        \* #middleware: <<[path, kind, dir]>>
    errorMiddleware,   \* #errorMiddleware: <<[path]>>
    staticDir,         \* #staticDir, "null" until static() is called
    server,            \* the http server: [listening, port, host]
    last,              \* the last API call: [op, port, host, threw]
    flights,           \* the requests in flight together, each with its own state
    lookup,            \* the result of the last findRoute call
    req,               \* the request in flight: [method, url], or NoReq
    res,               \* its response: [state, status, body]
    fsys,              \* the files under the static directories
    middlewareIndex,   \* #executeMiddleware's cursor
    handlerIndex,      \* per chain started: [route, idx], #executeRouteHandlers' cursor
    fuel,              \* operations user code may still perform
    log,               \* what was invoked and written for the request, in order
    stack,             \* the synchronous run in progress, innermost frame last
    ready,             \* continuations queued as microtasks, first in first out
    waiting,           \* continuations awaiting a pending promise
    timers,            \* tasks awaiting a timer or the file system
    prom,              \* the promises created: "P"ending, "R"esolved, rejected "X"
    unhandled,         \* a promise nobody awaits was rejected
    exc                \* a synchronous exception is propagating to the caller

appVars == <<routes, middleware, errorMiddleware, staticDir, server, last, lookup, flights>>
reqVars == <<req, res, fsys, middlewareIndex, handlerIndex, fuel, log>>
runVars == <<stack, ready, waiting, timers, prom, unhandled, exc>>
vars == <<appVars, reqVars, runVars>>

Called(op) == [op |-> op, port |-> 0, host |-> "none", threw |-> "none"]
NoReq == [method |-> "none", url |-> <<>>]
OpenResponse == [state |-> "open", status |-> 0, body |-> "none"]
NoLookup == [kind |-> "unset", idx |-> 0, params |-> NoParams]
\* Requests that are in flight together, and the state each one has of its own:
\* its req (method, url) and res objects, the middlewareIndex of its call of
\* #executeMiddleware, the route and handlerIndex of its call of
\* #executeRouteHandlers, where it stands (at), the stages invoked for it and
\* what its middleware and handlers chose to do.
Requests == {1, 2}
NoFlight ==
    [method |-> "none", url |-> <<>>, at |-> "none", middlewareIndex |-> 0,
     route |-> 0, handlerIndex |-> 0, res |-> OpenResponse,
     stages |-> <<>>, choices |-> <<>>]
IndexHtml == <<"index.html">>
FileNames == {IndexHtml} \cup RequestUrls

Init ==
    /\ routes = <<>>
    /\ middleware = <<>>
    /\ errorMiddleware = <<>>
    /\ staticDir = "null"
    /\ server = [listening |-> FALSE, port |-> 0, host |-> "none"]
    /\ last = Called("none")
    /\ flights = [r \in Requests |-> NoFlight]
    /\ lookup = NoLookup
    /\ req = NoReq
    /\ res = OpenResponse
    /\ fsys = [k \in Directories \X FileNames |-> "unknown"]
    /\ middlewareIndex = 0
    /\ handlerIndex = <<>>
    /\ fuel = MaxFuel
    /\ log = <<>>
    /\ stack = <<>>
    /\ ready = <<>>
    /\ waiting = {}
    /\ timers = {}
    /\ prom = <<>>
    /\ unhandled = FALSE
    /\ exc = FALSE

\* ------------------------------------------------------------ registration

\* #addMiddleware: a function of four parameters is an error handler.
addMiddleware(path, entry, arity) ==
    IF arity = 4
    THEN /\ errorMiddleware' = Append(errorMiddleware, [path |-> path])
         /\ UNCHANGED middleware
    ELSE /\ middleware' = Append(middleware, entry)
         /\ UNCHANGED errorMiddleware

\* The application is set up before it listens, with a bounded number of calls.
Entries == Len(middleware) + Len(errorMiddleware) + Len(routes)
SettingUp == ~server.listening /\ Entries < MaxEntries

\* use(path, middleware); use(middleware) mounts at "/".
Use(path, arity) ==
    /\ SettingUp
    /\ addMiddleware(IF path = Omitted THEN <<Slash>> ELSE path,
                     [path |-> IF path = Omitted THEN <<Slash>> ELSE path,
                      kind |-> "user", dir |-> "none", urlPath |-> <<>>], arity)
    /\ last' = Called("use")
    /\ UNCHANGED <<routes, staticDir, server, lookup, flights, reqVars, runVars>>

\* this.use("/", serveStatic): the mount path of the static middleware.
StaticMountPath_Given(urlPath) == urlPath
StaticMountPath(urlPath) == <<Slash>>

\* static(urlPath, dirPath, options): the middleware is mounted at "/", whatever
\* urlPath is, and has three parameters. The closure keeps urlPath and dirPath.
Static(urlPath, dirPath) ==
    /\ SettingUp
    /\ staticDir' = dirPath
    /\ addMiddleware(StaticMountPath(urlPath),
                     [path |-> StaticMountPath(urlPath), kind |-> "static",
                      dir |-> dirPath, urlPath |-> urlPath], 3)
    /\ last' = Called("static")
    /\ UNCHANGED <<routes, server, lookup, flights, reqVars, runVars>>

\* route(method, url, ...handlers), and get / post / ... which call it.
Route(method, url, n) ==
    /\ SettingUp
    /\ Len(routes) < MaxRoutes
    /\ routes' = Append(routes, [method |-> method, url |-> url, handlers |-> n])
    /\ last' = Called("route")
    /\ UNCHANGED <<middleware, errorMiddleware, staticDir, server, lookup, flights, reqVars, runVars>>

\* ------------------------------------------------------------------ listen

MaxPort == 65535

\* The test of line 75 on Number(port), for an integer port (Number leaves an
\* integer as it is, and an integer is not NaN).
InvalidPort_ZeroPasses(port) == port < 0 \/ port > MaxPort
InvalidPort(port) == port <= 0 \/ port > MaxPort

\* if (typeof host === "function") { host = undefined; }  host = host || "0.0.0.0";
ListenHost(host) == IF host \in {"undefined", "function"} THEN "0.0.0.0" ELSE host

\* listen(port, host, callback): the port is tested before this.#server.listen
\* is reached. A server that listens already is not asked to listen again.
Listen(port, host) ==
    /\ ~server.listening
    /\ IF InvalidPort(port)
       THEN /\ last' = [op |-> "listen", port |-> port, host |-> host,
                        threw |-> "Invalid port number"]
            /\ UNCHANGED server
       ELSE /\ last' = [op |-> "listen", port |-> port, host |-> host, threw |-> "none"]
            /\ server' = [listening |-> TRUE, port |-> port, host |-> ListenHost(host)]
    /\ UNCHANGED <<routes, middleware, errorMiddleware, staticDir, lookup, flights,
                   reqVars, runVars>>

\* ------------------------------------------------- frames and scheduling

\* A frame is one activation of a function: fn and pc say where it stands, pr is
\* the promise it settles when it ends (0: none), i an index (a middleware, an
\* error handler, a route, a handler), c a handler chain, p2 the promise of the
\* executor that #handleMiddleware awaits, aw the promise the last call returned,
\* err whether next was given an error, nx the next an error handler is given,
\* rs the outcome of the await it resumes from, sus whether user code has
\* suspended before, det whether nobody awaits pr, t a file.
Frame(fn, pc) ==
    [fn |-> fn, pc |-> pc, pr |-> 0, i |-> 0, c |-> 0, p2 |-> 0, aw |-> 0,
     err |-> FALSE, nx |-> "none", rs |-> "R", sus |-> FALSE, det |-> FALSE,
     t |-> <<>>]

Top == stack[Len(stack)]
Popped == SubSeq(stack, 1, Len(stack) - 1)
At(fn, pc) == stack # <<>> /\ Top.fn = fn /\ Top.pc = pc
NewP == Len(prom) + 1
Rejected(o) == o \in {"X", "ENOENT"}

\* res.writableEnded and res.headersSent
writableEnded == res.state = "ended"
headersSent == res.state # "open"

\* An entry of the log: what happened (ev), in which code (by) of which index
\* (i), in which activation (run: the promise of the error sweep for an error
\* handler, the chain for a route handler), and whether the response was
\* finalized by then (fin).
Event(ev, by, i, run) == [ev |-> ev, by |-> by, i |-> i, run |-> run, fin |-> writableEnded]
LoggedIn(ev, by, i, run) == log' = Append(log, Event(ev, by, i, run))
Logged(ev, by, i) == LoggedIn(ev, by, i, 0)

\* The top frame goes on as f.
Goes(f) ==
    /\ stack' = [stack EXCEPT ![Len(stack)] = f]
    /\ exc' = FALSE
    /\ UNCHANGED <<ready, waiting, timers, prom, unhandled>>

\* The top frame goes on as f after calling g, which gets a promise of its own.
Calls(f, g) ==
    /\ stack' = Append([stack EXCEPT ![Len(stack)] = [f EXCEPT !.aw = NewP]],
                       [g EXCEPT !.pr = NewP])
    /\ prom' = Append(prom, "P")
    /\ exc' = FALSE
    /\ UNCHANGED <<ready, waiting, timers, unhandled>>

\* The top frame ends by awaiting (or returning) the promise of a call to g and
\* settles as that promise does: g takes the frame's place and settles the
\* frame's promise itself.
Becomes(g) ==
    /\ stack' = [stack EXCEPT ![Len(stack)] = [g EXCEPT !.pr = Top.pr, !.det = Top.det]]
    /\ exc' = FALSE
    /\ UNCHANGED <<ready, waiting, timers, prom, unhandled>>

\* Promise p settles with outcome o: the continuation that awaits it (there is
\* at most one) is queued as a microtask.
Awaiting(p) == {x \in waiting : x.on = p}
ReadyAfter(p, o) ==
    IF Awaiting(p) = {} THEN ready
    ELSE Append(ready, [(CHOOSE x \in Awaiting(p) : TRUE).f EXCEPT !.rs = o])
Settles(p, o) ==
    /\ prom' = [prom EXCEPT ![p] = o]
    /\ ready' = ReadyAfter(p, o)
    /\ waiting' = waiting \ Awaiting(p)

\* The synchronous run is over when the stack empties: the first microtask
\* queued, if there is one, runs next.
Run(stk, rdy) ==
    IF stk = <<>> /\ rdy # <<>>
    THEN stack' = <<Head(rdy)>> /\ ready' = Tail(rdy)
    ELSE stack' = stk /\ ready' = rdy

\* The top frame ends with outcome o: "R" returns, "X" and "ENOENT" throw.
Returns(o) ==
    /\ Run(Popped, ReadyAfter(Top.pr, o))
    /\ prom' = [prom EXCEPT ![Top.pr] = o]
    /\ waiting' = waiting \ Awaiting(Top.pr)
    /\ unhandled' = (unhandled \/ (Top.det /\ Rejected(o)))
    /\ exc' = FALSE
    /\ UNCHANGED timers

\* The top frame awaits promise p and will resume as f.
Awaits(f, p) ==
    /\ IF prom[p] = "P"
       THEN /\ waiting' = waiting \cup {[on |-> p, f |-> f]}
            /\ Run(Popped, ready)
       ELSE /\ Run(Popped, Append(ready, [f EXCEPT !.rs = prom[p]]))
            /\ UNCHANGED waiting
    /\ exc' = FALSE
    /\ UNCHANGED <<timers, prom, unhandled>>

\* The top frame waits for a timer or for the file system and will resume as f.
Suspends(f) ==
    /\ Run(Popped, ready)
    /\ timers' = timers \cup {f}
    /\ exc' = FALSE
    /\ UNCHANGED <<waiting, prom, unhandled>>

\* With no microtask left, a timer or a file-system completion runs.
RunTimer ==
    /\ stack = <<>>
    /\ ready = <<>>
    /\ \E f \in timers :
        /\ stack' = <<f>>
        /\ timers' = timers \ {f}
    /\ UNCHANGED <<appVars, reqVars, ready, waiting, prom, unhandled, exc>>

\* ---------------------------------------------------------- #handleRequest

\* new URL(req.url, base).pathname, for URLs with no dot segment.
Pathname(url) == Before(url, {"?", "#"})

\* #handleRequest, #executeMiddleware: the cursor starts at 0 and next() is
\* called; nobody awaits the promise #handleRequest returns.
HandleRequest(method, url) ==
    /\ server.listening
    /\ req = NoReq
    /\ req' = [method |-> method, url |-> url]
    /\ res' = OpenResponse
    /\ middlewareIndex' = 0
    /\ stack' = <<[Frame("next", "start") EXCEPT !.pr = NewP, !.det = TRUE]>>
    /\ prom' = Append(prom, "P")
    /\ UNCHANGED <<appVars, fsys, handlerIndex, fuel, log,
                   ready, waiting, timers, unhandled, exc>>

\* -------------------------------------------------- #executeMiddleware.next

\* The tests of lines 159 and 161.
NextSeesEnded_Never == FALSE
NextSeesEnded == writableEnded
NextSeesError(f) == f.err

\* if (res.writableEnded) return;
NextEnded ==
    /\ At("next", "start")
    /\ NextSeesEnded
    /\ Returns("R")
    /\ UNCHANGED <<appVars, reqVars>>

\* if (error) return this.#executeErrorMiddleware(error, req, res, next);
NextError ==
    /\ At("next", "start")
    /\ ~NextSeesEnded /\ NextSeesError(Top)
    /\ Becomes([Frame("executeErrorMiddleware", "loop") EXCEPT !.i = 1, !.nx = "next"])
    /\ UNCHANGED <<appVars, reqVars>>

\* const { path, middleware } = this.#middleware[middlewareIndex++];
\* await this.#handleMiddleware(req, res, next, path, middleware);
NextMiddleware ==
    /\ At("next", "start")
    /\ ~NextSeesEnded /\ ~NextSeesError(Top)
    /\ middlewareIndex < Len(middleware)
    /\ middlewareIndex' = middlewareIndex + 1
    /\ Becomes([Frame("handleMiddleware", "start") EXCEPT !.i = middlewareIndex + 1])
    /\ UNCHANGED <<appVars, req, res, fsys, handlerIndex, fuel, log>>

\* await this.#processRequest(req, res);
NextDispatch ==
    /\ At("next", "start")
    /\ ~NextSeesEnded /\ ~NextSeesError(Top)
    /\ middlewareIndex >= Len(middleware)
    /\ Becomes(Frame("processRequest", "start"))
    /\ UNCHANGED <<appVars, reqVars>>

\* -------------------------------------------------------- #handleMiddleware

\* if (req.pathname.startsWith(path))
Mounted(path) == StartsWith(Pathname(req.url), path)

\* new Promise((resolve) => { middleware(req, res, cb) }): the middleware runs
\* in the executor; the promise is the one cb's resolve() resolves.
InvokeMiddleware ==
    /\ At("handleMiddleware", "start")
    /\ Mounted(middleware[Top.i].path)
    /\ LET kind == middleware[Top.i].kind
           callee == IF kind = "user"
                     THEN [Frame("mw", "run") EXCEPT
                              !.i = Top.i, !.p2 = NewP, !.det = TRUE]
                     ELSE [Frame("static", "start") EXCEPT
                              !.i = Top.i, !.p2 = NewP, !.det = TRUE]
       IN  /\ stack' = Append([stack EXCEPT ![Len(stack)] =
                                 [Top EXCEPT !.pc = "executor", !.p2 = NewP]],
                              [callee EXCEPT !.pr = NewP + 1])
           /\ prom' = prom \o <<"P", "P">>
           /\ Logged("invoke", IF kind = "user" THEN "mw" ELSE "static", Top.i)
    /\ UNCHANGED <<appVars, req, res, fsys, middlewareIndex, handlerIndex, fuel,
                   ready, waiting, timers, unhandled, exc>>

\* } else { await next(); }
SkipMiddleware ==
    /\ At("handleMiddleware", "start")
    /\ ~Mounted(middleware[Top.i].path)
    /\ Becomes(Frame("next", "start"))
    /\ UNCHANGED <<appVars, reqVars>>

\* The executor is over: an exception it threw rejects the promise, unless the
\* promise is settled already; then the promise is awaited.
AwaitExecutor ==
    /\ At("handleMiddleware", "executor")
    /\ LET p == Top.p2
           o == IF exc /\ prom[p] = "P" THEN "X" ELSE prom[p]
           f == [Top EXCEPT !.pc = "afterExecutor"]
       IN  /\ prom' = [prom EXCEPT ![p] = o]
           /\ IF o = "P"
              THEN /\ waiting' = waiting \cup {[on |-> p, f |-> f]}
                   /\ Run(Popped, ready)
              ELSE /\ Run(Popped, Append(ready, [f EXCEPT !.rs = o]))
                   /\ UNCHANGED waiting
    /\ exc' = FALSE
    /\ UNCHANGED <<appVars, reqVars, timers, unhandled>>

\* await next();  (inside the try)
ContinuePipeline ==
    /\ At("handleMiddleware", "afterExecutor")
    /\ Top.rs = "R"
    /\ Calls([Top EXCEPT !.pc = "retNext"], Frame("next", "start"))
    /\ UNCHANGED <<appVars, reqVars>>

AwaitNext ==
    /\ At("handleMiddleware", "retNext")
    /\ Awaits([Top EXCEPT !.pc = "afterNext"], Top.aw)
    /\ UNCHANGED <<appVars, reqVars>>

\* catch (error) { next(error); }: for what the middleware threw in the
\* executor and for what the awaited next() rejected with; next is not awaited.
CatchToNext ==
    /\ \/ At("handleMiddleware", "afterExecutor")
       \/ At("handleMiddleware", "afterNext")
    /\ Rejected(Top.rs)
    /\ Calls([Top EXCEPT !.pc = "done"],
             [Frame("next", "start") EXCEPT !.err = TRUE, !.det = TRUE])
    /\ UNCHANGED <<appVars, reqVars>>

HandleMiddlewareDone ==
    /\ \/ At("handleMiddleware", "done")
       \/ At("handleMiddleware", "afterNext") /\ Top.rs = "R"
    /\ Returns("R")
    /\ UNCHANGED <<appVars, reqVars>>

\* ---------------------------------------------------------------- user code

\* What a middleware ("mw"), an error handler ("eh") or a route handler ("rh")
\* does is not the framework's: each invocation performs any sequence of the
\* operations below, within the fuel.
UserCode == {"mw", "eh", "rh"}
InUserCode == stack # <<>> /\ Top.fn \in UserCode /\ ~exc

\* res.send(data) / res.json(data) / res.end(): on a response whose headers are
\* sent, setHeader throws instead (see UserThrow).
UserSend ==
    /\ InUserCode /\ fuel > 0
    /\ ~headersSent
    /\ res' = [state |-> "ended", status |-> 200, body |-> "handler"]
    /\ fuel' = fuel - 1
    /\ Logged("send", Top.fn, Top.i)
    /\ Goes(Top)
    /\ UNCHANGED <<appVars, req, fsys, middlewareIndex, handlerIndex>>

\* The callback #handleMiddleware gives a middleware, with no error:
\* (err) => { if (err) next(err); else resolve(); }
MwCallsNext ==
    /\ InUserCode /\ fuel > 0
    /\ Top.fn = "mw"
    /\ fuel' = fuel - 1
    /\ Logged("next", "mw", Top.i)
    /\ IF prom[Top.p2] = "P"
       THEN Settles(Top.p2, "R")
       ELSE UNCHANGED <<prom, ready, waiting>>
    /\ UNCHANGED <<appVars, req, res, fsys, middlewareIndex, handlerIndex,
                   stack, timers, unhandled, exc>>

\* The same callback with an error: next(err), not awaited.
MwCallsNextErr ==
    /\ InUserCode /\ fuel > 0
    /\ Top.fn = "mw"
    /\ fuel' = fuel - 1
    /\ Logged("nexterr", "mw", Top.i)
    /\ Calls(Top, [Frame("next", "start") EXCEPT !.err = TRUE, !.det = TRUE])
    /\ UNCHANGED <<appVars, req, res, fsys, middlewareIndex, handlerIndex>>

\* The next an error handler is given: #executeMiddleware's next when the
\* error came from the middleware pipeline, () => {} when it came from a route.
EhCallsNext(withErr) ==
    /\ InUserCode /\ fuel > 0
    /\ Top.fn = "eh"
    /\ fuel' = fuel - 1
    /\ Logged(IF withErr THEN "nexterr" ELSE "next", "eh", Top.i)
    /\ IF Top.nx = "next"
       THEN Calls(Top, [Frame("next", "start") EXCEPT !.err = withErr, !.det = TRUE])
       ELSE Goes(Top)
    /\ UNCHANGED <<appVars, req, res, fsys, middlewareIndex, handlerIndex>>

\* The next of #executeRouteHandlers, which a route handler calls and does not
\* await.
RhCallsNext(withErr) ==
    /\ InUserCode /\ fuel > 0
    /\ Top.fn = "rh"
    /\ fuel' = fuel - 1
    /\ Logged(IF withErr THEN "nexterr" ELSE "next", "rh", Top.i)
    /\ Calls(Top, [Frame("routeNext", "start") EXCEPT
                      !.err = withErr, !.det = TRUE, !.c = Top.c])
    /\ UNCHANGED <<appVars, req, res, fsys, middlewareIndex, handlerIndex>>

\* A synchronous throw, before the code has suspended: the caller sees it.
UserThrow ==
    /\ InUserCode /\ fuel > 0
    /\ ~Top.sus
    /\ fuel' = fuel - 1
    /\ Logged("throw", Top.fn, Top.i)
    /\ stack' = Popped
    /\ exc' = TRUE
    /\ UNCHANGED <<appVars, req, res, fsys, middlewareIndex, handlerIndex,
                   ready, waiting, timers, prom, unhandled>>

\* An async function throws: the promise it returned is rejected.
UserRejects ==
    /\ InUserCode /\ fuel > 0
    /\ fuel' = fuel - 1
    /\ Logged("reject", Top.fn, Top.i)
    /\ Returns("X")
    /\ UNCHANGED <<appVars, req, res, fsys, middlewareIndex, handlerIndex>>

\* The code awaits something of its own (a timer, I/O).
UserSuspends ==
    /\ InUserCode /\ fuel > 0
    /\ fuel' = fuel - 1
    /\ Suspends([Top EXCEPT !.sus = TRUE])
    /\ UNCHANGED <<appVars, req, res, fsys, middlewareIndex, handlerIndex, log>>

UserReturns ==
    /\ InUserCode
    /\ Returns("R")
    /\ UNCHANGED <<appVars, reqVars>>

\* ------------------------------------------------- #executeErrorMiddleware

\* if (req.url.startsWith(path))
ErrorMounted_Always(path) == TRUE
ErrorMounted(path) == StartsWith(req.url, path)

\* The test of line 196, after an error handler returned.
SweepSeesEnded == writableEnded

\* await middleware(err, req, res, next);
InvokeErrorHandler ==
    /\ At("executeErrorMiddleware", "loop")
    /\ Top.i <= Len(errorMiddleware)
    /\ ErrorMounted(errorMiddleware[Top.i].path)
    /\ LoggedIn("invoke", "eh", Top.i, Top.pr)
    /\ Calls([Top EXCEPT !.pc = "called"],
             [Frame("eh", "run") EXCEPT !.i = Top.i, !.nx = Top.nx])
    /\ UNCHANGED <<appVars, req, res, fsys, middlewareIndex, handlerIndex, fuel>>

SkipErrorHandler ==
    /\ At("executeErrorMiddleware", "loop")
    /\ Top.i <= Len(errorMiddleware)
    /\ ~ErrorMounted(errorMiddleware[Top.i].path)
    /\ Goes([Top EXCEPT !.i = Top.i + 1])
    /\ UNCHANGED <<appVars, reqVars>>

\* The handler threw synchronously: catch (newErr) { err = newErr; } and the
\* loop goes on. Otherwise what it returned is awaited.
AfterErrorHandler ==
    /\ At("executeErrorMiddleware", "called")
    /\ IF exc
       THEN Goes([Top EXCEPT !.pc = "loop", !.i = Top.i + 1])
       ELSE Awaits([Top EXCEPT !.pc = "resumed"], Top.aw)
    /\ UNCHANGED <<appVars, reqVars>>

\* if (res.writableEnded) return;  after a handler that returned
SweepStops ==
    /\ At("executeErrorMiddleware", "resumed")
    /\ Top.rs = "R" /\ SweepSeesEnded
    /\ Returns("R")
    /\ UNCHANGED <<appVars, reqVars>>

\* The loop goes on: after a handler that returned with the response open, and
\* after a handler whose promise was rejected (the catch).
SweepGoesOn ==
    /\ At("executeErrorMiddleware", "resumed")
    /\ Rejected(Top.rs) \/ ~SweepSeesEnded
    /\ Goes([Top EXCEPT !.pc = "loop", !.i = Top.i + 1])
    /\ UNCHANGED <<appVars, reqVars>>

\* #sendErrorResponse(res, code): writeHead throws once the headers are sent.
ErrorBody(code) == IF code = 404 THEN "Not Found" ELSE "Internal Server Error"
sendErrorResponse(code) ==
    res' = [state |-> "ended", status |-> code, body |-> ErrorBody(code)]

\* if (!res.writableEnded) this.#sendErrorResponse(res, 500);
SweepEnds ==
    /\ At("executeErrorMiddleware", "loop")
    /\ Top.i > Len(errorMiddleware)
    /\ IF writableEnded
       THEN Returns("R") /\ UNCHANGED <<res, log>>
       ELSE IF headersSent
       THEN Returns("X") /\ UNCHANGED <<res, log>>
       ELSE Returns("R") /\ sendErrorResponse(500) /\ Logged("write", "framework", 500)
    /\ UNCHANGED <<appVars, req, fsys, middlewareIndex, handlerIndex, fuel>>

\* --------------------------------------------------------- #processRequest

\* const routeMatch = findRoute(this.#routes, req): a URIError of
\* decodeURIComponent leaves #processRequest as a rejection.
ProcessRequestThrows ==
    /\ At("processRequest", "start")
    /\ findRoute(routes, req).kind = "throw"
    /\ lookup' = findRoute(routes, req)
    /\ Logged("dispatch", "framework", 0)
    /\ Returns("X")
    /\ UNCHANGED <<routes, middleware, errorMiddleware, staticDir, server, last, flights,
                   req, res, fsys, middlewareIndex, handlerIndex, fuel>>

\* if (!routeMatch) { await this.#handleUnmatchedRoute(req, res); return; }
ProcessUnmatched ==
    /\ At("processRequest", "start")
    /\ findRoute(routes, req).kind = "none"
    /\ lookup' = findRoute(routes, req)
    /\ Logged("dispatch", "framework", 0)
    /\ Becomes(Frame("handleUnmatchedRoute", "start"))
    /\ UNCHANGED <<routes, middleware, errorMiddleware, staticDir, server, last, flights,
                   req, res, fsys, middlewareIndex, handlerIndex, fuel>>

\* req.params = { ...routeMatch.params };
\* await this.#handleMatchedRoute(routeMatch, req, res);
ProcessMatched ==
    /\ At("processRequest", "start")
    /\ findRoute(routes, req).kind = "match"
    /\ lookup' = findRoute(routes, req)
    /\ Logged("dispatch", "framework", findRoute(routes, req).idx)
    /\ Becomes([Frame("handleMatchedRoute", "start") EXCEPT !.i = findRoute(routes, req).idx])
    /\ UNCHANGED <<routes, middleware, errorMiddleware, staticDir, server, last, flights,
                   req, res, fsys, middlewareIndex, handlerIndex, fuel>>

\* ----------------------------------------------------- static files, fallback

\* #sendNotFoundResponse(res), where the function ends with it.
EndsWithNotFound ==
    IF headersSent
    THEN Returns("X") /\ UNCHANGED <<res, log>>
    ELSE Returns("R") /\ sendErrorResponse(404) /\ Logged("write", "framework", 404)

\* #handleUnmatchedRoute without a static directory.
UnmatchedNotFound ==
    /\ At("handleUnmatchedRoute", "start")
    /\ staticDir = "null"
    /\ EndsWithNotFound
    /\ UNCHANGED <<appVars, req, fsys, middlewareIndex, handlerIndex, fuel>>

\* await this.#serveStaticFile(res, fallbackPath, {});
UnmatchedFallback ==
    /\ At("handleUnmatchedRoute", "start")
    /\ staticDir # "null"
    /\ Calls([Top EXCEPT !.pc = "fallback"],
             [Frame("serveStaticFile", "start") EXCEPT !.t = <<staticDir, IndexHtml>>])
    /\ UNCHANGED <<appVars, reqVars>>

AwaitFallback ==
    /\ At("handleUnmatchedRoute", "fallback")
    /\ Awaits([Top EXCEPT !.pc = "afterFallback"], Top.aw)
    /\ UNCHANGED <<appVars, reqVars>>

FallbackServed ==
    /\ At("handleUnmatchedRoute", "afterFallback")
    /\ Top.rs = "R"
    /\ Returns("R")
    /\ UNCHANGED <<appVars, reqVars>>

\* catch { this.#sendNotFoundResponse(res); }
FallbackNotFound ==
    /\ At("handleUnmatchedRoute", "afterFallback")
    /\ Rejected(Top.rs)
    /\ EndsWithNotFound
    /\ UNCHANGED <<appVars, req, fsys, middlewareIndex, handlerIndex, fuel>>

\* const stat = await fs.stat(filePath);
StatRequested ==
    /\ At("serveStaticFile", "start")
    /\ Suspends([Top EXCEPT !.pc = "stat"])
    /\ UNCHANGED <<appVars, reqVars>>

\* What is at a path: a file, a directory or nothing. It is decided when the
\* path is first looked at and stays.
Kinds == {"file", "dir", "missing"}
StatResult(t, k) == fsys[t] \in {"unknown", k}

\* if (stat.isFile()) this.#sendFile(res, filePath, options);  (not awaited)
StatFile ==
    /\ At("serveStaticFile", "stat")
    /\ StatResult(Top.t, "file")
    /\ fsys' = [fsys EXCEPT ![Top.t] = "file"]
    /\ Calls([Top EXCEPT !.pc = "sent"],
             [Frame("sendFile", "start") EXCEPT !.t = Top.t, !.det = TRUE])
    /\ UNCHANGED <<appVars, req, res, middlewareIndex, handlerIndex, fuel, log>>

StatDone ==
    /\ At("serveStaticFile", "sent")
    /\ Returns("R")
    /\ UNCHANGED <<appVars, reqVars>>

\* else throw new Error("Not a file");  the error has no code
StatDirectory ==
    /\ At("serveStaticFile", "stat")
    /\ StatResult(Top.t, "dir")
    /\ fsys' = [fsys EXCEPT ![Top.t] = "dir"]
    /\ Returns("X")
    /\ UNCHANGED <<appVars, req, res, middlewareIndex, handlerIndex, fuel, log>>

\* fs.stat rejects with code ENOENT
StatMissing ==
    /\ At("serveStaticFile", "stat")
    /\ StatResult(Top.t, "missing")
    /\ fsys' = [fsys EXCEPT ![Top.t] = "missing"]
    /\ Returns("ENOENT")
    /\ UNCHANGED <<appVars, req, res, middlewareIndex, handlerIndex, fuel, log>>

\* #sendFile: res.setHeader throws once the headers are sent; then
\* const fileHandle = await fs.open(filePath, "r");
SendFileOpens ==
    /\ At("sendFile", "start")
    /\ IF headersSent THEN Returns("X") ELSE Suspends([Top EXCEPT !.pc = "open"])
    /\ UNCHANGED <<appVars, reqVars>>

\* fileHandle.createReadStream().pipe(res): the file streams to the response,
\* which ends when the stream does (StreamEnds).
SendFilePipes ==
    /\ At("sendFile", "open")
    /\ IF headersSent
       THEN UNCHANGED <<res, log>>
       ELSE /\ res' = [state |-> "streaming", status |-> 200,
                       body |-> IF Top.t[2] = IndexHtml THEN "index.html" ELSE "file"]
            /\ Logged("write", "framework", 200)
    /\ Returns("R")
    /\ UNCHANGED <<appVars, req, fsys, middlewareIndex, handlerIndex, fuel>>

StreamEnds ==
    /\ stack = <<>> /\ ready = <<>>
    /\ res.state = "streaming"
    /\ res' = [res EXCEPT !.state = "ended"]
    /\ UNCHANGED <<appVars, req, fsys, middlewareIndex, handlerIndex, fuel, log, runVars>>

\* #resolveStaticFilePath(req, dirPath)
resolveStaticFilePath(url, dirPath) ==
    IF url = <<Slash>> \/ url = <<>> THEN <<dirPath, IndexHtml>> ELSE <<dirPath, url>>

\* The middleware static() registers:
\* await this.#serveStaticFile(res, filePath, options);
StaticServes ==
    /\ At("static", "start")
    /\ Calls([Top EXCEPT !.pc = "serving"],
             [Frame("serveStaticFile", "start") EXCEPT
                 !.t = resolveStaticFilePath(req.url, middleware[Top.i].dir)])
    /\ UNCHANGED <<appVars, reqVars>>

AwaitStatic ==
    /\ At("static", "serving")
    /\ Awaits([Top EXCEPT !.pc = "served"], Top.aw)
    /\ UNCHANGED <<appVars, reqVars>>

\* The file is served: the middleware returns without calling next.
StaticServed ==
    /\ At("static", "served")
    /\ Top.rs = "R"
    /\ Returns("R")
    /\ UNCHANGED <<appVars, reqVars>>

\* if (error.code === "ENOENT") return next();
StaticFallsThrough ==
    /\ At("static", "served")
    /\ Top.rs = "ENOENT"
    /\ stack' = [stack EXCEPT ![Len(stack)] = [Top EXCEPT !.pc = "passed"]]
    /\ IF prom[Top.p2] = "P"
       THEN Settles(Top.p2, "R")
       ELSE UNCHANGED <<prom, ready, waiting>>
    /\ UNCHANGED <<appVars, reqVars, timers, unhandled, exc>>

StaticPassed ==
    /\ At("static", "passed")
    /\ Returns("R")
    /\ UNCHANGED <<appVars, reqVars>>

\* this.#sendErrorResponse(res, 500);  for any other error
StaticFails ==
    /\ At("static", "served")
    /\ Top.rs = "X"
    /\ IF headersSent
       THEN Returns("X") /\ UNCHANGED <<res, log>>
       ELSE Returns("R") /\ sendErrorResponse(500) /\ Logged("write", "framework", 500)
    /\ UNCHANGED <<appVars, req, fsys, middlewareIndex, handlerIndex, fuel>>

\* ------------------------------------------------------ route handler chain

\* try { await this.#executeRouteHandlers(routeMatch, req, res); }
HandleMatchedRoute ==
    /\ At("handleMatchedRoute", "start")
    /\ Calls([Top EXCEPT !.pc = "chain"],
             [Frame("executeRouteHandlers", "start") EXCEPT !.i = Top.i])
    /\ UNCHANGED <<appVars, reqVars>>

AwaitChain ==
    /\ At("handleMatchedRoute", "chain")
    /\ Awaits([Top EXCEPT !.pc = "afterChain"], Top.aw)
    /\ UNCHANGED <<appVars, reqVars>>

ChainDone ==
    /\ At("handleMatchedRoute", "afterChain")
    /\ Top.rs = "R"
    /\ Returns("R")
    /\ UNCHANGED <<appVars, reqVars>>

\* catch (error) { await this.#executeErrorMiddleware(error, req, res, () => {}); }
ChainFailed ==
    /\ At("handleMatchedRoute", "afterChain")
    /\ Rejected(Top.rs)
    /\ Becomes([Frame("executeErrorMiddleware", "loop") EXCEPT !.i = 1, !.nx = "noop"])
    /\ UNCHANGED <<appVars, reqVars>>

\* let handlerIndex = 0; ... await next();
ExecuteRouteHandlers ==
    /\ At("executeRouteHandlers", "start")
    /\ handlerIndex' = Append(handlerIndex, [route |-> Top.i, idx |-> 0])
    /\ Becomes([Frame("routeNext", "start") EXCEPT !.c = Len(handlerIndex) + 1])
    /\ UNCHANGED <<appVars, req, res, fsys, middlewareIndex, fuel, log>>

\* if (error) return this.#executeErrorMiddleware(error, req, res, () => {});
RouteNextError ==
    /\ At("routeNext", "start")
    /\ Top.err
    /\ Becomes([Frame("executeErrorMiddleware", "loop") EXCEPT !.i = 1, !.nx = "noop"])
    /\ UNCHANGED <<appVars, reqVars>>

\* const handler = route.handlers[handlerIndex++];
\* if (handler) await handler(req, res, next);
RouteNextHandler ==
    /\ At("routeNext", "start")
    /\ ~Top.err
    /\ LET ch == handlerIndex[Top.c]
           h == ch.idx + 1
       IN  /\ handlerIndex' = [handlerIndex EXCEPT ![Top.c].idx = h]
           /\ IF h <= routes[ch.route].handlers
              THEN /\ LoggedIn("invoke", "rh", h, Top.c)
                   /\ Calls([Top EXCEPT !.pc = "called"],
                            [Frame("rh", "run") EXCEPT !.i = h, !.c = Top.c])
              ELSE /\ Returns("R")
                   /\ UNCHANGED log
    /\ UNCHANGED <<appVars, req, res, fsys, middlewareIndex, fuel>>

\* A handler that throws synchronously makes this next() reject.
AfterRouteHandler ==
    /\ At("routeNext", "called")
    /\ IF exc THEN Returns("X") ELSE Awaits([Top EXCEPT !.pc = "handled"], Top.aw)
    /\ UNCHANGED <<appVars, reqVars>>

\* This next() ends as the handler's promise did.
RouteNextDone ==
    /\ At("routeNext", "handled")
    /\ Returns(Top.rs)
    /\ UNCHANGED <<appVars, reqVars>>

\* ---------------------------------------------------------------- the system

Register ==
    \/ \E p \in MountPaths \cup {Omitted}, a \in {3, 4} : Use(p, a)
    \/ \E u \in PipelineRoutes : Route("GET", u, MaxHandlers)

Serve ==
    \/ Listen(80, "undefined")
    \/ \E m \in RequestMethods, u \in RequestUrls : HandleRequest(m, u)

Pipeline ==
    \/ NextEnded \/ NextError \/ NextMiddleware \/ NextDispatch
    \/ InvokeMiddleware \/ SkipMiddleware \/ AwaitExecutor \/ ContinuePipeline
    \/ AwaitNext \/ CatchToNext \/ HandleMiddlewareDone

UserSteps ==
    \/ UserSend \/ MwCallsNext \/ MwCallsNextErr
    \/ EhCallsNext(FALSE) \/ EhCallsNext(TRUE)
    \/ RhCallsNext(FALSE) \/ RhCallsNext(TRUE)
    \/ UserThrow \/ UserRejects \/ UserSuspends \/ UserReturns

ErrorSweep ==
    \/ InvokeErrorHandler \/ SkipErrorHandler \/ AfterErrorHandler
    \/ SweepStops \/ SweepGoesOn \/ SweepEnds

Dispatch ==
    \/ ProcessRequestThrows \/ ProcessUnmatched \/ ProcessMatched
    \/ UnmatchedNotFound
    \/ HandleMatchedRoute \/ AwaitChain \/ ChainDone \/ ChainFailed
    \/ ExecuteRouteHandlers \/ RouteNextError \/ RouteNextHandler \/ AfterRouteHandler
    \/ RouteNextDone

StaticFiles ==
    \/ UnmatchedFallback \/ AwaitFallback \/ FallbackServed \/ FallbackNotFound
    \/ StatRequested \/ StatFile \/ StatDone \/ StatDirectory \/ StatMissing
    \/ SendFileOpens \/ SendFilePipes
    \/ StaticServes \/ AwaitStatic \/ StaticServed \/ StaticFallsThrough \/ StaticPassed
    \/ StaticFails

Next ==
    \/ Register \/ Serve \/ RunTimer
    \/ Pipeline \/ UserSteps \/ ErrorSweep \/ Dispatch

Spec == Init /\ [][Next]_vars

\* ----------------------------------------------------- the matcher, applied

\* findRoute applied to a request, as #processRequest applies it (line 206).
Lookup(method, url) ==
    /\ req' = [method |-> method, url |-> url]
    /\ lookup' = findRoute(routes, [method |-> method, url |-> url])
    /\ UNCHANGED <<routes, middleware, errorMiddleware, staticDir, server, last, flights,
                   res, fsys, middlewareIndex, handlerIndex, fuel, log, runVars>>

\* The table is built first and looked up in afterwards.
RegisterRoute(method, url) == lookup = NoLookup /\ Route(method, url, 1)

NextRoute ==
    \/ \E m \in Methods, u \in MatcherPatterns : RegisterRoute(m, u)
    \/ \E m \in Methods, u \in MatcherUrls : Lookup(m, u)

SpecRoute == Init /\ [][NextRoute]_vars

NextListen ==
    \/ \E p \in MountPaths \cup {Omitted}, a \in {3, 4} : Use(p, a)
    \/ \E p \in MountPaths, d \in Directories : Static(p, d)
    \/ \E p \in Ports, h \in Hosts : Listen(p, h)

SpecListen == Init /\ [][NextListen]_vars

\* ------------------------------------------- the system with static serving

NextStatic ==
    \/ \E p \in MountPaths : Static(p, MainDirectory)
    \/ Next
    \/ StaticFiles \/ StreamEnds

SpecStatic == Init /\ [][NextStatic]_vars

\* ------------------------------ static() called several times, and middleware

NextMount ==
    \/ \E p \in MountPaths, d \in Directories : Static(p, d)
    \/ \E p \in MountPaths : Use(p, 3)
    \/ Serve \/ RunTimer \/ StreamEnds
    \/ NextEnded \/ NextMiddleware \/ NextDispatch
    \/ InvokeMiddleware \/ SkipMiddleware \/ AwaitExecutor \/ ContinuePipeline
    \/ AwaitNext \/ HandleMiddlewareDone
    \/ UserSend \/ MwCallsNext \/ UserReturns
    \/ ProcessUnmatched
    \/ StaticFiles

SpecMount == Init /\ [][NextMount]_vars

\* ------------------------------------------------ requests in flight together

\* The steps of one request between the points where its middleware or route
\* handler runs. Each is a function of the request's own record and of the
\* cursor it reads; the tables are the application's.

\* let middlewareIndex = 0;  inside #executeMiddleware: one per request.
CursorOf_Shared(r) == flights[1].middlewareIndex
CursorOf(r) == flights[r].middlewareIndex

\* let handlerIndex = 0;  inside #executeRouteHandlers: one per call.
HandlerCursorOf(r) == flights[r].handlerIndex

\* #handleRequest: a request arrives with its own req and res.
Arrived(method, url) == [NoFlight EXCEPT !.method = method, !.url = url, !.at = "next"]

\* #processRequest for the request of record f. A lookup that raises is caught
\* by #handleMiddleware where a middleware was invoked (then the sweep, with no
\* error handler, ends in 500) and is an unhandled rejection otherwise.
Dispatched(f) ==
    LET m == findRoute(routes, [method |-> f.method, url |-> f.url])
        g == [f EXCEPT !.stages = Append(@, <<"dispatch", IF m.kind = "match" THEN m.idx ELSE 0>>)]
    IN  CASE m.kind = "match" ->
               [g EXCEPT !.route = m.idx, !.handlerIndex = 0, !.at = "routeNext"]
          [] m.kind = "none" ->
               [g EXCEPT !.at = "done",
                         !.res = [state |-> "ended", status |-> 404, body |-> ErrorBody(404)]]
          [] OTHER ->
               [g EXCEPT !.at = "done",
                         !.res = IF \E k \in DOMAIN f.stages : f.stages[k][1] = "mw"
                                 THEN [state |-> "ended", status |-> 500,
                                       body |-> ErrorBody(500)]
                                 ELSE f.res]

\* #executeMiddleware's next() for the request of record f, reading cursor.
PipelineStep(f, cursor) ==
    IF f.res.state = "ended" THEN [f EXCEPT !.at = "done"]
    ELSE IF cursor < Len(middleware)
    THEN IF StartsWith(Pathname(f.url), middleware[cursor + 1].path)
         THEN [f EXCEPT !.middlewareIndex = cursor + 1, !.at = "mw",
                        !.stages = Append(@, <<"mw", cursor + 1>>)]
         ELSE [f EXCEPT !.middlewareIndex = cursor + 1]
    ELSE Dispatched(f)

\* #executeRouteHandlers' next() for the request of record f, reading cursor.
ChainStep(f, cursor) ==
    IF cursor < routes[f.route].handlers
    THEN [f EXCEPT !.handlerIndex = cursor + 1, !.at = "rh",
                   !.stages = Append(@, <<"rh", cursor + 1>>)]
    ELSE [f EXCEPT !.handlerIndex = cursor + 1, !.at = "done"]

\* What the middleware or route handler that runs for the request does: it
\* calls next(), sends the response, or signals an error, which with no error
\* handler registered ends in the framework's 500.
Choices == {"next", "send", "error"}
Chosen(f, c) ==
    LET g == [f EXCEPT !.choices = Append(@, c)]
    IN  CASE c = "next" -> [g EXCEPT !.at = IF f.at = "mw" THEN "next" ELSE "routeNext"]
          [] c = "send" ->
               [g EXCEPT !.at = "done",
                         !.res = [state |-> "ended", status |-> 200, body |-> "handler"]]
          [] OTHER ->
               [g EXCEPT !.at = "done",
                         !.res = [state |-> "ended", status |-> 500, body |-> ErrorBody(500)]]

PairUnchanged ==
    UNCHANGED <<routes, middleware, errorMiddleware, staticDir, server, last, lookup,
                reqVars, runVars>>

PairArrive(r, method, url) ==
    /\ server.listening
    /\ flights[r] = NoFlight
    /\ flights' = [flights EXCEPT ![r] = Arrived(method, url)]
    /\ PairUnchanged

PairNext(r) ==
    /\ flights[r].at = "next"
    /\ flights' = [flights EXCEPT ![r] = PipelineStep(flights[r], CursorOf(r))]
    /\ PairUnchanged

PairRouteNext(r) ==
    /\ flights[r].at = "routeNext"
    /\ flights' = [flights EXCEPT ![r] = ChainStep(flights[r], HandlerCursorOf(r))]
    /\ PairUnchanged

PairMiddleware(r, c) ==
    /\ flights[r].at = "mw"
    /\ flights' = [flights EXCEPT ![r] = Chosen(flights[r], c)]
    /\ PairUnchanged

PairHandler(r, c) ==
    /\ flights[r].at = "rh"
    /\ flights' = [flights EXCEPT ![r] = Chosen(flights[r], c)]
    /\ PairUnchanged

NextPair ==
    \/ \E p \in MountPaths : Use(p, 3)
    \/ \E u \in PipelineRoutes : Route("GET", u, MaxHandlers)
    \/ Listen(80, "undefined")
    \/ \E r \in Requests, m \in RequestMethods, u \in RequestUrls : PairArrive(r, m, u)
    \/ \E r \in Requests : PairNext(r) \/ PairRouteNext(r)
    \/ \E r \in Requests, c \in Choices : PairMiddleware(r, c) \/ PairHandler(r, c)

SpecPair == Init /\ [][NextPair]_vars

\* ------------------------------------------------------------ the properties

\* What the log says of one request.
Invokes(p, by) == log[p].ev = "invoke" /\ log[p].by = by
SignalsError(p, by) == log[p].ev \in {"nexterr", "throw", "reject"} /\ log[p].by = by
FrameworkWrites(p) == log[p].ev = "write" /\ log[p].by = "framework"
Dispatches(p) == log[p].ev = "dispatch"
Finished == req # NoReq /\ stack = <<>> /\ ready = <<>> /\ timers = {}

\* C1: once the middleware at position i has called next(err), and has not
\* itself called next() afterwards, no middleware registered after position i is
\* invoked and no route dispatch takes place for the request, whatever the
\* error handlers do with their next argument.
C1_ErrorBypassesPipeline ==
    \A p, q \in DOMAIN log :
        (/\ p < q
         /\ log[p].ev = "nexterr" /\ log[p].by = "mw"
         /\ \A k \in p..q : ~(log[k].ev = "next" /\ log[k].by = "mw"))
        => ~(\/ Invokes(q, "mw") /\ log[q].i > log[p].i
             \/ Dispatches(q))

\* C2: when a middleware calls next(err) with the response open and some error
\* handler's mount path is a prefix of the raw request URL, the next thing that
\* happens is the invocation of the earliest-registered such handler; within
\* one sweep the handlers are invoked in registration order; and a handler
\* whose mount path is not a prefix of the raw URL is never invoked.
PrefixesUrl(j) == StartsWith(req.url, errorMiddleware[j].path)
EarliestPrefixing ==
    CHOOSE j \in DOMAIN errorMiddleware :
        PrefixesUrl(j) /\ \A k \in 1..(j - 1) : ~PrefixesUrl(k)
SentThenNext(p) ==
    /\ log[p].ev = "next" /\ log[p].by = "mw"
    /\ \E k \in 1..(p - 1) : log[k].ev = "send" /\ log[k].by = "mw" /\ log[k].i = log[p].i
C3_FinalizedStopsPipeline ==
    \A p, q \in DOMAIN log :
        (p < q /\ SentThenNext(p))
        => ~(Invokes(q, "mw") \/ Invokes(q, "rh") \/ Dispatches(q) \/ FrameworkWrites(q))

\* A finished request in which the first of two middleware mounted on the URL
\* sent the response and called next(), and the answer is the middleware's.
C3_Witness ==
    /\ Finished
    /\ Len(middleware) >= 2
    /\ \A j \in DOMAIN middleware : StartsWith(Pathname(req.url), middleware[j].path)
    /\ \E p \in DOMAIN log : SentThenNext(p) /\ log[p].i = 1
    /\ res = [state |-> "ended", status |-> 200, body |-> "handler"]

\* C7: without a static directory, a request that went through the pipeline
\* with no error signalled and whose method and path match no registered route
\* is answered 404 "Not Found" at dispatch, and no route handler and no error
\* handler is invoked for it.
SegmentsFit(routeParts, urlParts) ==
    /\ Len(routeParts) = Len(urlParts)
    /\ \A i \in DOMAIN routeParts : IsParam(routeParts[i]) \/ routeParts[i] = urlParts[i]
Fits(route, method, url) ==
    /\ route.method = method
    /\ SegmentsFit(Split(route.url, Slash), Split(RoutePathname(url), Slash))
C7_UnmatchedIsNotFound ==
    (/\ staticDir = "null"
     /\ req # NoReq
     /\ \A k \in DOMAIN routes : ~Fits(routes[k], req.method, req.url)
     /\ \A p \in DOMAIN log : ~SignalsError(p, "mw") /\ ~log[p].fin
     /\ \E p \in DOMAIN log : Dispatches(p)
     /\ Finished)
    => /\ res = [state |-> "ended", status |-> 404, body |-> "Not Found"]
       /\ \A p \in DOMAIN log : ~Invokes(p, "rh") /\ ~Invokes(p, "eh")

\* C4: the lookup returns the earliest-registered route whose method and
\* pattern fit the request, with the parameter names of that registration.
FittingRoutes == {k \in DOMAIN routes : Fits(routes[k], req.method, req.url)}
ParamNames(pattern) ==
    LET parts == Split(pattern, Slash)
    IN  {Tail(parts[i]) : i \in {n \in DOMAIN parts : IsParam(parts[n])}}
C4_FirstRegisteredWins ==
    (lookup # NoLookup /\ FittingRoutes # {})
    => /\ lookup.kind = "match"
       /\ lookup.idx \in FittingRoutes
       /\ \A k \in FittingRoutes : lookup.idx <= k
       /\ DOMAIN lookup.params = ParamNames(routes[lookup.idx].url)

\* C5: for one pattern, the matcher reports a match exactly when the methods
\* are equal, the segment counts are equal and every literal segment of the
\* pattern equals the segment of the path at its position; on a match params
\* has one entry per ':name', bound to the (percent-decoded) segment at its
\* position; with different segment counts the result is no-match.
BoundAsSegments(pattern, url, params) ==
    LET parts == Split(pattern, Slash)
        segs == Split(RoutePathname(url), Slash)
    IN  \A i \in DOMAIN parts :
            IsParam(parts[i]) =>
                /\ Tail(parts[i]) \in DOMAIN params
                /\ decodeURIComponent(segs[i]).ok
                /\ params[Tail(parts[i])] = decodeURIComponent(segs[i]).val
C5_MatchExactlyWhenShapeFits ==
    (lookup # NoLookup /\ Len(routes) = 1)
    => /\ lookup.kind = "match" <=> Fits(routes[1], req.method, req.url)
       /\ lookup.kind = "match"
            => /\ DOMAIN lookup.params = ParamNames(routes[1].url)
               /\ BoundAsSegments(routes[1].url, req.url, lookup.params)
       /\ Len(Split(routes[1].url, Slash)) # Len(Split(RoutePathname(req.url), Slash))
            => lookup.kind = "none"

\* C6: with a static directory whose index document is a file, a request that
\* fits no route and names no file of the directory, in an application whose
\* only middleware is the static one, is never answered 404 or 500, and once
\* answered it is answered with the index document.
C6_FallbackServesIndex ==
    (/\ staticDir # "null"
     /\ fsys[<<staticDir, IndexHtml>>] \in {"unknown", "file"}
     /\ req # NoReq
     /\ fsys[<<staticDir, req.url>>] \in {"dir", "missing"}
     /\ FittingRoutes = {}
     /\ \A j \in DOMAIN middleware : middleware[j].kind = "static")
    => /\ res.status \notin {404, 500}
       /\ (Finished /\ writableEnded) => res.status = 200 /\ res.body = "index.html"

\* C8: listen(port) throws "Invalid port number", and the server is not asked
\* to listen, exactly when port < 1 or port > 65535; otherwise it does not
\* throw and the server listens on the port, on 0.0.0.0 when no host is given.
C8_InvalidPortExactly ==
    last.op = "listen"
    => /\ last.threw = "Invalid port number" <=> (last.port < 1 \/ last.port > 65535)
       /\ last.threw # "Invalid port number" => last.threw = "none"
       /\ last.threw = "none"
            => /\ server.listening /\ server.port = last.port
               /\ last.host \in {"undefined", "function"} => server.host = "0.0.0.0"
               /\ last.host \notin {"undefined", "function"} => server.host = last.host
       /\ last.threw # "none" => ~server.listening

\* listen(65535) with no host: the server listens on 0.0.0.0.
C8_Witness ==
    /\ last = [op |-> "listen", port |-> 65535, host |-> "undefined", threw |-> "none"]
    /\ server = [listening |-> TRUE, port |-> 65535, host |-> "0.0.0.0"]

\* C9: for one error signalled by a middleware or a route handler, each error
\* handler is invoked at most once, whatever the error handlers do with their
\* next argument.
C9_OneSweepPerError ==
    Cardinality({p \in DOMAIN log : SignalsError(p, "mw") \/ SignalsError(p, "rh")}) <= 1
    => \A j \in DOMAIN errorMiddleware :
          Cardinality({p \in DOMAIN log : Invokes(p, "eh") /\ log[p].i = j}) <= 1

\* C10: no error handler is invoked once the response is finalized.
C10_NoHandlerAfterFinalized ==
    \A p \in DOMAIN log : Invokes(p, "eh") => ~log[p].fin

\* C11: in a route's handler chain, after a handler has finalized the response
\* and then called next(), no later handler of the chain is invoked.
RhSentThenNext(p) ==
    /\ log[p].ev = "next" /\ log[p].by = "rh"
    /\ \E k \in 1..(p - 1) : log[k].ev = "send" /\ log[k].by = "rh" /\ log[k].i = log[p].i
C11_ChainStopsWhenFinalized ==
    \A p, q \in DOMAIN log :
        (p < q /\ RhSentThenNext(p)) => ~(Invokes(q, "rh") /\ log[q].i > log[p].i)

\* C12: in a route's handler chain, after the handler at position i has thrown
\* or called next(err), no handler at a greater position is invoked.
C12_ChainErrorBypassesRest ==
    \A p, q \in DOMAIN log :
        (p < q /\ SignalsError(p, "rh")) => ~(Invokes(q, "rh") /\ log[q].i > log[p].i)

\* C13: a request whose method and path fit a registered route is not answered
\* from the static directory, even when a file of that path exists there.
C13_RoutesBeforeStatic ==
    (req # NoReq /\ FittingRoutes # {})
    => /\ res.body \notin {"file", "index.html"}
       /\ \A p \in DOMAIN log : ~(FrameworkWrites(p) /\ log[p].i = 200)

\* C14: when a middleware or a route handler signals or throws an error while
\* the response is open and untouched, and no error handler is registered, the
\* request ends with the framework's 500 "Internal Server Error", written once.
C14_UnhandledErrorIsOne500 ==
    (/\ Finished
     /\ errorMiddleware = <<>>
     /\ \E p \in DOMAIN log :
           /\ SignalsError(p, "mw") \/ SignalsError(p, "rh")
           /\ \A k \in 1..p : ~log[k].fin /\ log[k].ev # "send")
    => /\ res = [state |-> "ended", status |-> 500, body |-> "Internal Server Error"]
       /\ Cardinality({p \in DOMAIN log : FrameworkWrites(p)}) = 1

\* C15: a middleware's synchronous throw is followed by what its next(e) is
\* followed by: with the response open, the error sweep starts, that is, the
\* next thing that happens is the invocation of the earliest error handler
\* mounted on the URL, or the framework's 500 when there is none.
SweepStartsAfter(p) ==
    p < Len(log)
    => IF \E j \in DOMAIN errorMiddleware : PrefixesUrl(j)
       THEN Invokes(p + 1, "eh") /\ log[p + 1].i = EarliestPrefixing
       ELSE FrameworkWrites(p + 1) /\ log[p + 1].i = 500
C15_ThrowIsNextErr ==
    \A p \in DOMAIN log :
        (log[p].by = "mw" /\ log[p].ev \in {"throw", "nexterr"} /\ ~log[p].fin)
        => SweepStartsAfter(p)

\* C16: a route lookup never raises; in particular, when no route fits the
\* request in method and shape (a literal segment differs, whatever stands at
\* the ':name' positions), the lookup ends with no-match.
C16_NoFitIsNoMatch ==
    (lookup # NoLookup /\ FittingRoutes = {}) => lookup.kind = "none"

\* C17: in a finished request in which every invoked middleware called next()
\* and none finalized the response or signalled an error, the middleware
\* invoked are exactly those whose mount path is a prefix of the pathname, each
\* once and in registration order, and route dispatch takes place exactly
\* once, after the last of them.
IsMwInvoke(e) == e.ev = "invoke" /\ e.by = "mw"
MwInvoked == LET inv == SelectSeq(log, IsMwInvoke) IN [k \in DOMAIN inv |-> inv[k].i]
PrefixesPathname(j) == StartsWith(Before(req.url, {"?", "#"}), middleware[j].path)
MwMounted == SelectSeq([j \in DOMAIN middleware |-> j], PrefixesPathname)
EveryMwOnlyCallsNext ==
    /\ \A p \in DOMAIN log :
          log[p].by = "mw" => log[p].ev \in {"invoke", "next"}
    /\ \A p \in DOMAIN log :
          IsMwInvoke(log[p])
          => \E q \in DOMAIN log : log[q].ev = "next" /\ log[q].by = "mw" /\ log[q].i = log[p].i
C17_MountedInOrderThenDispatch ==
    (Finished /\ EveryMwOnlyCallsNext)
    => /\ MwInvoked = MwMounted
       /\ Cardinality({p \in DOMAIN log : Dispatches(p)}) = 1
       /\ \A p, q \in DOMAIN log : (IsMwInvoke(log[p]) /\ Dispatches(q)) => p < q

\* C19: a request that matched a route, and in which every invoked middleware
\* and route handler called next() exactly once and did nothing else, is
\* answered. Stated on the states where the request's computation has come to
\* rest (nothing on the stack, no microtask, no timer): no step of the request
\* is enabled there, so a response that is open then is never finalized.
ActsOf(by, i) == {p \in DOMAIN log : log[p].by = by /\ log[p].i = i /\ log[p].ev # "invoke"}
CalledNextOnce(by, i) ==
    /\ Cardinality(ActsOf(by, i)) = 1
    /\ \A p \in ActsOf(by, i) : log[p].ev = "next"
C19_MatchedRequestIsAnswered ==
    (/\ Finished
     /\ lookup.kind = "match"
     /\ \A p \in DOMAIN log :
           (Invokes(p, "mw") \/ Invokes(p, "rh")) => CalledNextOnce(log[p].by, log[p].i))
    => writableEnded

\* C20: the middleware of static(mountPath, directory) is registered under "/",
\* whatever mountPath is; a request that gets past the position of a static
\* middleware has had the file lookup attempted there, also when its path does
\* not start with mountPath; and the SPA fallback looks in the directory of the
\* most recent static() call.
StaticEntries == {j \in DOMAIN middleware : middleware[j].kind = "static"}
LastStaticDir ==
    middleware[CHOOSE j \in StaticEntries : \A k \in StaticEntries : k <= j].dir
PastPosition(p, j) ==
    \/ (Invokes(p, "mw") \/ Invokes(p, "static")) /\ log[p].i > j
    \/ Dispatches(p)
C20_StaticMountedAtRoot ==
    /\ \A j \in StaticEntries : middleware[j].path = <<"/">>
    /\ \A j \in StaticEntries : \A p \in DOMAIN log :
          PastPosition(p, j)
          => \E q \in 1..(p - 1) : Invokes(q, "static") /\ log[q].i = j
    /\ StaticEntries # {} => staticDir = LastStaticDir
    /\ \A k \in 2..Len(stack) :
          (stack[k - 1].fn = "handleUnmatchedRoute" /\ stack[k].fn = "serveStaticFile")
          => stack[k].t = <<LastStaticDir, <<"index.html">>>>

\* static("/a", "public") and then static("/a", "dist"); a request whose path
\* does not start with /a had both lookups attempted and was answered with the
\* index document of dist, the only index document that was looked at.
C20_Witness ==
    /\ Len(middleware) = 2
    /\ \A j \in DOMAIN middleware :
          middleware[j].kind = "static" /\ middleware[j].urlPath = <<"/", "a">>
    /\ middleware[1].dir = "public" /\ middleware[2].dir = "dist"
    /\ ~StartsWith(req.url, <<"/", "a">>)
    /\ \E p, q \in DOMAIN log :
          /\ Invokes(p, "static") /\ log[p].i = 1
          /\ Invokes(q, "static") /\ log[q].i = 2
    /\ res = [state |-> "ended", status |-> 200, body |-> "index.html"]
    /\ fsys[<<"dist", <<"index.html">>>>] = "file"
    /\ fsys[<<"public", <<"index.html">>>>] = "unknown"

\* C18: with the route and middleware tables fixed and requests in flight
\* together, interleaved at their suspension points in any order, every request
\* stands where it would stand if it were processed alone and its middleware
\* and handlers made the same choices: the same stages invoked, the same
\* cursors, the same response; and no step changes the record of more than one
\* request.
RECURSIVE AloneFrom(_, _)
AloneFrom(f, cs) ==
    CASE f.at = "next" -> AloneFrom(PipelineStep(f, f.middlewareIndex), cs)
      [] f.at = "routeNext" -> AloneFrom(ChainStep(f, f.handlerIndex), cs)
      [] f.at \in {"mw", "rh"} /\ cs # <<>> -> AloneFrom(Chosen(f, Head(cs)), Tail(cs))
      [] OTHER -> f
InFlight == {r \in Requests : flights[r] # NoFlight}
SameAsAlone(r) ==
    AloneFrom(flights[r], <<>>)
        = AloneFrom(Arrived(flights[r].method, flights[r].url), flights[r].choices)
OneRequestPerStep ==
    \A r, q \in Requests :
        (r # q /\ flights'[r] # flights[r]) => flights'[q] = flights[q]
====
